---- MODULE Spec2Model ----
(***************************************************************************)
(* State-machine model of the Psp34Nft contract (src/lib.rs) and of its    *)
(* Manager storage item (src/psp34_standard.rs).                           *)
(*                                                                         *)
(* Every message is one atomic action.  A message is modelled as the Rust  *)
(* method behaves when it is called on the contract object: a message that *)
(* returns Err keeps whatever it wrote to the contract before the error    *)
(* was detected (the methods themselves hold no rollback).                 *)
(*                                                                         *)
(* The token ledger (PSP34Data), the attribute store (metadata::Data) and  *)
(* the access-control helper (ownable::Data) are modules of the crate      *)
(* whose files are not part of src/; they are modelled from the            *)
(* specification (sections 3, 4.1 to 4.4) and carry the prefix data_,     *)
(* metadata_ and ownable_.                                                 *)
(***************************************************************************)
EXTENDS Integers, Sequences, FiniteSets, TLC

(***************************************************************************)
(* Bounds of the model                                                     *)
(***************************************************************************)
\* mint is not offered once last_token_id has reached MaxTokenId
MaxTokenId == 2
\* lock is not offered once locked_token_count has reached MaxLockCount
MaxLockCount == 2
\* longest (name, value) list passed to set_multiple_attributes
MaxPairs == 2

(***************************************************************************)
(* Integer widths.  TLC's integers are 32-bit and cannot hold u64::MAX or  *)
(* u32::MAX; the largest integer TLC holds stands for both, so that        *)
(* checked_add(1) fails at the top of the counter's range and nowhere else.*)
(***************************************************************************)
\* u64::MAX: last_token_id and locked_token_count
u64_MAX == 2147483647
\* u32::MAX: attribute_count
u32_MAX == 2147483647

(***************************************************************************)
(* Values                                                                  *)
(***************************************************************************)
Accounts == {"A", "B", "C"}
\* Option<AccountId>::None
None == "None"
\* The account given to the constructor as contract_owner
Deployer == "A"

\* Id::U8(n) and Id::U64(n): distinct variants never compare equal
U8(n) == <<"U8", n>>
U64(n) == <<"U64", n>>
\* Option<Id>::None
NoneId == <<"None", 0>>
\* the identifier the constructor and set_base_uri store under
CollectionId == U8(0)
\* identifiers a caller may pass: the collection pseudo-token, U64(0) and
\* the token ids up to one past the last mintable id
Ids == {U8(0)} \cup {U64(n) : n \in 0..(MaxTokenId + 1)}
TokenIds == {U64(n) : n \in 1..MaxTokenId}

Names == {"color", "size"}
Values == {"red", "blue"}
Uris == {"ipfs://a/", "ipfs://b/"}

RECURSIVE SeqsUpTo(_, _)
SeqsUpTo(S, n) ==
    IF n = 0 THEN {<<>>}
    ELSE LET shorter == SeqsUpTo(S, n - 1)
         IN  shorter \cup {Append(s, x) : s \in {t \in shorter : Len(t) = n - 1}, x \in S}
\* the Vec<(String, String)> arguments
PairLists == SeqsUpTo(Names \X Values, MaxPairs)

VARIABLES
    ownable_owner,        \* ownable::Data.owner : Option<AccountId>
    last_token_id,        \* Manager.last_token_id
    attribute_count,      \* Manager.attribute_count
    attribute_names,      \* Manager.attribute_names : index -> name
    is_attribute,         \* Manager.is_attribute : the names holding an entry
    locked_tokens,        \* Manager.locked_tokens : the ids holding an entry
    locked_token_count,   \* Manager.locked_token_count
    attributes,           \* metadata::Data : (id, key) -> value
    token_owner,          \* PSP34Data : id -> owner
    balance,              \* PSP34Data : account -> number of tokens
    supply,               \* PSP34Data : total supply
    operator_approvals,   \* PSP34Data : set of (owner, operator, Option<Id>)
    all_tokens,           \* PSP34Data : the global enumeration index
    owned_tokens,         \* PSP34Data : account -> its enumeration index
    last,                 \* the last message that took effect
    sealed                \* history: ids whose lock succeeded, not burned since

vars == <<ownable_owner, last_token_id, attribute_count, attribute_names,
          is_attribute, locked_tokens, locked_token_count, attributes,
          token_owner, balance, supply, operator_approvals, all_tokens,
          owned_tokens, last, sealed>>



(***************************************************************************)
(* Results and small helpers                                               *)
(***************************************************************************)
\* Mapping::insert: the entry for k is written, every other entry is kept
Upsert(f, k, v) == [x \in (DOMAIN f) \cup {k} |-> IF x = k THEN v ELSE f[x]]
\* Mapping::remove
Remove(f, k) == [x \in (DOMAIN f) \ {k} |-> f[x]]
EmptyMap == [x \in {} |-> None]

TransferEvent(from, to, id) == [event |-> "Transfer", from |-> from, to |-> to, id |-> id]
ApprovalEvent(owner, operator, id, approved) ==
    [event |-> "Approval", owner |-> owner, operator |-> operator, id |-> id,
     approved |-> approved]
OwnershipTransferredEvent(old, new) ==
    [event |-> "OwnershipTransferred", old_owner |-> old, new_owner |-> new]

\* what is kept of a message that took effect: which one, sent by whom,
\* whether the token it named was then owned by another account, and Ok or
\* the Err
Call(op, caller, for_other, ok, err) ==
    [op |-> op, caller |-> caller, for_other |-> for_other, ok |-> ok,
     err |-> err]

(***************************************************************************)
(* ownable::Data (modelled from the specification, section 1:              *)
(* current_owner(), is_owner(caller), transfer, renounce)                  *)
(***************************************************************************)
\* _check_owner(Some(caller)): Ok exactly when caller is the stored owner
ownable_check_owner(owner, caller) == owner = caller

(***************************************************************************)
(* PSP34Data: the token ledger and the approval subsystem (modelled from   *)
(* the specification, sections 3, 4.1, 4.2 and 4.3).  d is the ledger       *)
(* record.  An enumeration index is a sequence; index i of the contract is  *)
(* position i + 1 of the sequence.                                          *)
(***************************************************************************)
\* removal from an enumeration index: the last entry takes the place of x and
\* the list is shortened by one (swap with last and pop)
SwapRemove(list, x) ==
    LET i == CHOOSE k \in 1..Len(list) : list[k] = x
        moved == [list EXCEPT ![i] = list[Len(list)]]
    IN  SubSeq(moved, 1, Len(list) - 1)

DataOk(d, events) == [ok |-> TRUE, err |-> "", d |-> d, events |-> events]
DataErr(d, err) == [ok |-> FALSE, err |-> err, d |-> d, events |-> <<>>]

data_owner_of(d, id) ==
    IF id \in DOMAIN d.token_owner THEN d.token_owner[id] ELSE None

data_balance_of(d, account) == d.balance[account]

data_total_supply(d) == d.supply

\* true if the collection-wide relation holds or, for Some(id), the per-token one
data_allowance(d, owner, operator, id) ==
    \/ <<owner, operator, NoneId>> \in d.operator_approvals
    \/ id # NoneId /\ <<owner, operator, id>> \in d.operator_approvals

\* Result<Id, PSP34Error> of the two index lookups
IdOk(id) == [ok |-> TRUE, err |-> "", id |-> id]
IdErr(err) == [ok |-> FALSE, err |-> err, id |-> NoneId]

data_token_by_index(d, index) ==
    IF index < Len(d.all_tokens) THEN IdOk(d.all_tokens[index + 1])
    ELSE IdErr("TokenNotExists")

data_owners_token_by_index(d, owner, index) ==
    IF index < Len(d.owned_tokens[owner]) THEN IdOk(d.owned_tokens[owner][index + 1])
    ELSE IdErr("TokenNotExists")

data_mint(d, owner, id) ==
    IF id \in DOMAIN d.token_owner
    THEN DataErr(d, "TokenExists")
    ELSE DataOk([d EXCEPT !.token_owner = Upsert(@, id, owner),
                          !.balance[owner] = @ + 1,
                          !.supply = @ + 1,
                          !.all_tokens = Append(@, id),
                          !.owned_tokens[owner] = Append(@, id)],
                <<TransferEvent(None, owner, id)>>)

data_transfer(d, caller, to, id) ==
    LET owner == data_owner_of(d, id) IN
    IF owner = None THEN DataErr(d, "TokenNotExists")
    ELSE IF caller # owner /\ ~data_allowance(d, owner, caller, id)
    THEN DataErr(d, "NotApproved")
    ELSE LET cleared == {a \in d.operator_approvals : a[3] # id}
             debited == [d.balance EXCEPT ![owner] = @ - 1]
             taken == [d.owned_tokens EXCEPT ![owner] = SwapRemove(@, id)]
         IN  DataOk([d EXCEPT !.operator_approvals = cleared,
                              !.token_owner = Upsert(@, id, to),
                              !.balance = [debited EXCEPT ![to] = @ + 1],
                              !.owned_tokens = [taken EXCEPT ![to] = Append(@, id)]],
                    <<TransferEvent(owner, to, id)>>)

data_approve(d, caller, operator, id, approved) ==
    IF operator = caller THEN DataErr(d, "SelfApprove")
    ELSE IF id = NoneId
    THEN DataOk([d EXCEPT !.operator_approvals =
                     IF approved THEN @ \cup {<<caller, operator, NoneId>>}
                     ELSE @ \ {<<caller, operator, NoneId>>}],
                <<ApprovalEvent(caller, operator, id, approved)>>)
    ELSE LET owner == data_owner_of(d, id) IN
         IF owner = None \/ (caller # owner /\ ~data_allowance(d, owner, caller, id))
         THEN DataErr(d, "NotApproved")
         ELSE DataOk([d EXCEPT !.operator_approvals =
                          IF approved THEN @ \cup {<<owner, operator, id>>}
                          ELSE @ \ {<<owner, operator, id>>}],
                     <<ApprovalEvent(caller, operator, id, approved)>>)

data_burn(d, caller, owner, id) ==
    LET token_owner_ == data_owner_of(d, id) IN
    IF token_owner_ = None THEN DataErr(d, "TokenNotExists")
    ELSE IF token_owner_ # owner THEN DataErr(d, "NotOwner")
    ELSE IF caller # owner /\ ~data_allowance(d, owner, caller, id)
    THEN DataErr(d, "NotApproved")
    ELSE DataOk([d EXCEPT !.token_owner = Remove(@, id),
                          !.balance[owner] = @ - 1,
                          !.supply = @ - 1,
                          !.operator_approvals = {a \in @ : a[3] # id},
                          !.all_tokens = SwapRemove(@, id),
                          !.owned_tokens[owner] = SwapRemove(@, id)],
                <<TransferEvent(owner, None, id)>>)

(***************************************************************************)
(* metadata::Data: the attribute store (modelled from the specification,   *)
(* section 4.4).  The interning table is not part of it: it is Manager's,  *)
(* kept by Manager::add_attribute_name.                                    *)
(***************************************************************************)
metadata_set_attribute(attrs, id, key, value) == Upsert(attrs, <<id, key>>, value)

\* Option<Vec<u8>>: None and Some(value); Some of any text differs from None
NoValue == <<>>
SomeValue(value) == <<value>>

metadata_get_attribute(attrs, id, key) ==
    IF <<id, key>> \in DOMAIN attrs THEN SomeValue(attrs[<<id, key>>]) ELSE NoValue

\* ownable::Data::transfer_ownership / renounce_ownership: the owner is replaced
ownable_transfer_ownership(owner, new_owner) == new_owner

(***************************************************************************)
(* Manager (src/psp34_standard.rs).  m is the Manager record.              *)
(***************************************************************************)
MgrOk(m) == [ok |-> TRUE, err |-> "", m |-> m]
MgrErr(m, err) == [ok |-> FALSE, err |-> err, m |-> m]

get_last_token_id(m) == m.last_token_id

\* mutant: the flag is set, the counter is left alone
Manager_lock_flag_only(m, token_id) ==
    IF m.locked_token_count = u64_MAX
    THEN MgrErr(m, "Cannot increase locked token count")
    ELSE MgrOk([m EXCEPT !.locked_tokens = @ \cup {token_id}])

\* checked_add(1) fails at u64::MAX and nothing is written
Manager_lock(m, token_id) ==
    IF m.locked_token_count = u64_MAX
    THEN MgrErr(m, "Cannot increase locked token count")
    ELSE MgrOk([m EXCEPT !.locked_token_count = @ + 1,
                         !.locked_tokens = @ \cup {token_id}])

is_locked_nft(m, token_id) == token_id \in m.locked_tokens

get_locked_token_count(m) == m.locked_token_count

Manager_set_base_uri(m, uri) ==
    MgrOk([m EXCEPT !.attributes = metadata_set_attribute(@, CollectionId, "baseURI", uri)])

\* mutant: the name is stored at the count before the increment
add_attribute_name_at_old_count(m, attribute_input) ==
    LET exist == attribute_input \in m.is_attribute IN
    IF ~exist
    THEN IF m.attribute_count = u32_MAX
         THEN MgrErr(m, "Fail to increase attribute count")
         ELSE MgrOk([m EXCEPT !.attribute_count = @ + 1,
                              !.attribute_names = Upsert(@, m.attribute_count, attribute_input),
                              !.is_attribute = @ \cup {attribute_input}])
    ELSE MgrErr(m, "Attribute input exists")

\* The only caller passes the bytes of a String, for which String::from_utf8
\* is Ok: the "Attribute input error" branch has no input that takes it.
\* checked_add(1) fails at u32::MAX and nothing is written.
add_attribute_name(m, attribute_input) ==
    LET exist == attribute_input \in m.is_attribute IN
    IF ~exist
    THEN IF m.attribute_count = u32_MAX
         THEN MgrErr(m, "Fail to increase attribute count")
         ELSE MgrOk([m EXCEPT !.attribute_count = @ + 1,
                              !.attribute_names = Upsert(@, m.attribute_count + 1, attribute_input),
                              !.is_attribute = @ \cup {attribute_input}])
    ELSE MgrErr(m, "Attribute input exists")

\* mutant: the name is interned but its value is not stored
RECURSIVE set_attributes_names_only(_, _, _, _)
set_attributes_names_only(m, token_id, metadata, i) ==
    IF i > Len(metadata) THEN MgrOk(m)
    ELSE LET added == add_attribute_name(m, metadata[i][1]) IN
         IF ~added.ok THEN added
         ELSE set_attributes_names_only(added.m, token_id, metadata, i + 1)

\* the for loop of set_multiple_attributes from pair i on: the first Err ends
\* the loop and is returned, what the earlier pairs wrote stays written
RECURSIVE set_attributes_from(_, _, _, _)
set_attributes_from(m, token_id, metadata, i) ==
    IF i > Len(metadata) THEN MgrOk(m)
    ELSE LET added == add_attribute_name(m, metadata[i][1]) IN
         IF ~added.ok THEN added
         ELSE set_attributes_from(
                  [added.m EXCEPT !.attributes =
                       metadata_set_attribute(@, token_id, metadata[i][1], metadata[i][2])],
                  token_id, metadata, i + 1)

Manager_set_multiple_attributes(m, token_id, metadata) ==
    IF token_id = U64(0) THEN MgrErr(m, "InvalidInput")
    ELSE IF is_locked_nft(m, token_id) THEN MgrErr(m, "Token is locked")
    ELSE set_attributes_from(m, token_id, metadata, 1)

\* one entry per requested name: the stored value, or "" when none is stored
\* (a value written from a String is valid UTF-8, so the branch that pushes ""
\* for invalid text is not taken)
get_attributes(m, token_id, names) ==
    [i \in 1..Len(names) |->
        LET value == metadata_get_attribute(m.attributes, token_id, names[i])
        IN  IF value # NoValue THEN value[1] ELSE ""]

get_attribute_count(m) == m.attribute_count

\* the name stored at index, or "" when the index holds none (a stored name
\* came from a String, so it is valid UTF-8)
get_attribute_name(m, index) ==
    IF index \in DOMAIN m.attribute_names THEN m.attribute_names[index] ELSE ""

\* u64::to_string: the decimal digits of n, most significant first
DecimalDigit(d) == <<"0", "1", "2", "3", "4", "5", "6", "7", "8", "9">>[d + 1]
RECURSIVE to_string(_)
to_string(n) ==
    IF n < 10 THEN DecimalDigit(n)
    ELSE to_string(n \div 10) \o DecimalDigit(n % 10)

\* the stored baseURI (empty when none is stored), the id in decimal, ".json"
token_uri(m, token_id) ==
    LET value == metadata_get_attribute(m.attributes, CollectionId, "baseURI")
        base  == IF value # NoValue THEN value[1] ELSE ""
    IN  base \o to_string(token_id) \o ".json"

(***************************************************************************)
(* Psp34Nft (src/lib.rs).  s is the contract: [owner, m, d].               *)
(***************************************************************************)
Ok(s, events) == [ok |-> TRUE, err |-> "", s |-> s, events |-> events]
Err(s, err) == [ok |-> FALSE, err |-> err, s |-> s, events |-> <<>>]

owner_of(s, id) == data_owner_of(s.d, id)
\* mutant: the supply is taken to be the number of tokens ever minted
total_supply_minted(s) == s.m.last_token_id
total_supply(s) == data_total_supply(s.d)
balance_of(s, owner) == data_balance_of(s.d, owner)
allowance(s, owner, operator, id) == data_allowance(s.d, owner, operator, id)
get_attribute(s, id, key) == metadata_get_attribute(s.m.attributes, id, key)
owners_token_by_index(s, owner, index) == data_owners_token_by_index(s.d, owner, index)
\* mutant: the global index is read one position further
token_by_index_shifted(s, index) == data_token_by_index(s.d, index + 1)
token_by_index(s, index) == data_token_by_index(s.d, index)

\* Psp34Nft::new(contract_owner, name, symbol)
new(contract_owner, name, symbol) ==
    [owner |-> contract_owner,
     m |-> [last_token_id |-> 0,
            attribute_count |-> 0,
            attribute_names |-> EmptyMap,
            is_attribute |-> {},
            locked_tokens |-> {},
            locked_token_count |-> 0,
            attributes |-> metadata_set_attribute(
                               metadata_set_attribute(EmptyMap, CollectionId, "name", name),
                               CollectionId, "symbol", symbol)],
     d |-> [token_owner |-> EmptyMap,
            balance |-> [a \in Accounts |-> 0],
            supply |-> 0,
            operator_approvals |-> {},
            all_tokens |-> <<>>,
            owned_tokens |-> [a \in Accounts |-> <<>>]]]

\* mutant: mint without the contract-owner check
mint_unchecked(s, caller) ==
    IF s.m.last_token_id = u64_MAX THEN Err(s, "Cannot increase last token id")
    ELSE LET s1 == [s EXCEPT !.m.last_token_id = @ + 1]
             r  == data_mint(s1.d, caller, U64(s1.m.last_token_id))
         IN  IF r.ok THEN Ok([s1 EXCEPT !.d = r.d], r.events)
             ELSE Err(s1, r.err)

\* mutant: the new id is taken from the number of live tokens
mint_by_supply(s, caller) ==
    IF ~ownable_check_owner(s.owner, caller) THEN Err(s, "CallerIsNotOwner")
    ELSE IF s.m.last_token_id = u64_MAX THEN Err(s, "Cannot increase last token id")
    ELSE LET s1 == [s EXCEPT !.m.last_token_id = s.d.supply + 1]
             r  == data_mint(s1.d, caller, U64(s1.m.last_token_id))
         IN  IF r.ok THEN Ok([s1 EXCEPT !.d = r.d], r.events)
             ELSE Err(s1, r.err)

\* checked_add(1) fails at u64::MAX and nothing is written
mint(s, caller) ==
    IF ~ownable_check_owner(s.owner, caller) THEN Err(s, "CallerIsNotOwner")
    ELSE IF s.m.last_token_id = u64_MAX THEN Err(s, "Cannot increase last token id")
    ELSE LET s1 == [s EXCEPT !.m.last_token_id = @ + 1]
             r  == data_mint(s1.d, caller, U64(s1.m.last_token_id))
         IN  IF r.ok THEN Ok([s1 EXCEPT !.d = r.d], r.events)
             ELSE Err(s1, r.err)

set_multiple_attributes(s, caller, token_id, metadata) ==
    IF ~ownable_check_owner(s.owner, caller) THEN Err(s, "CallerIsNotOwner")
    ELSE LET r == Manager_set_multiple_attributes(s.m, token_id, metadata) IN
         IF r.ok THEN Ok([s EXCEPT !.m = r.m], <<>>)
         ELSE Err([s EXCEPT !.m = r.m], r.err)

mint_with_attributes(s, caller, metadata) ==
    IF ~ownable_check_owner(s.owner, caller) THEN Err(s, "CallerIsNotOwner")
    ELSE IF s.m.last_token_id = u64_MAX THEN Err(s, "Cannot increase last token id")
    ELSE LET s1 == [s EXCEPT !.m.last_token_id = @ + 1]
             r  == data_mint(s1.d, caller, U64(s1.m.last_token_id))
         IN  IF ~r.ok THEN Err(s1, r.err)
             ELSE LET s2 == [s1 EXCEPT !.d = r.d]
                      a  == set_multiple_attributes(s2, caller,
                                                    U64(s2.m.last_token_id), metadata)
                  IN  IF ~a.ok THEN [Err(a.s, "Cannot set attributes")
                                        EXCEPT !.events = r.events]
                      ELSE Ok(a.s, r.events)

\* mutant: the recipient is passed to the ledger in the caller's place
transfer_swapped(s, caller, to, id) ==
    LET r == data_transfer(s.d, to, caller, id) IN
    IF r.ok THEN Ok([s EXCEPT !.d = r.d], r.events) ELSE Err(s, r.err)

transfer(s, caller, to, id) ==
    LET r == data_transfer(s.d, caller, to, id) IN
    IF r.ok THEN Ok([s EXCEPT !.d = r.d], r.events) ELSE Err(s, r.err)

approve(s, caller, operator, id, approved) ==
    LET r == data_approve(s.d, caller, operator, id, approved) IN
    IF r.ok THEN Ok([s EXCEPT !.d = r.d], r.events) ELSE Err(s, r.err)

\* mutant: account is taken for the caller
burn_as_account(s, caller, account, id) ==
    LET token_owner_ == owner_of(s, id) IN
    IF token_owner_ = None THEN Err(s, "No token owner found")
    ELSE IF token_owner_ # account THEN Err(s, "not token owner")
    ELSE LET s1 == [s EXCEPT !.m.locked_tokens = @ \ {id}] IN
         IF s1.m.locked_token_count = 0
         THEN Err(s1, "Locked token count error")
         ELSE LET s2 == [s1 EXCEPT !.m.locked_token_count = @ - 1]
                  r  == data_burn(s2.d, account, account, id)
              IN  IF r.ok THEN Ok([s2 EXCEPT !.d = r.d], r.events)
                  ELSE Err(s2, r.err)

\* mutant: the lock flag of the burned token is left in place
burn_keeps_flag(s, caller, account, id) ==
    LET token_owner_ == owner_of(s, id) IN
    IF token_owner_ = None THEN Err(s, "No token owner found")
    ELSE IF token_owner_ # account THEN Err(s, "not token owner")
    ELSE IF ~(caller = account \/ allowance(s, account, caller, id))
    THEN Err(s, "caller is not token owner or approved")
    ELSE IF s.m.locked_token_count = 0
         THEN Err(s, "Locked token count error")
         ELSE LET s2 == [s EXCEPT !.m.locked_token_count = @ - 1]
                  r  == data_burn(s2.d, caller, account, id)
              IN  IF r.ok THEN Ok([s2 EXCEPT !.d = r.d], r.events)
                  ELSE Err(s2, r.err)

burn(s, caller, account, id) ==
    LET token_owner_ == owner_of(s, id) IN
    IF token_owner_ = None THEN Err(s, "No token owner found")
    ELSE IF token_owner_ # account THEN Err(s, "not token owner")
    ELSE IF ~(caller = account \/ allowance(s, account, caller, id))
    THEN Err(s, "caller is not token owner or approved")
    ELSE LET s1 == [s EXCEPT !.m.locked_tokens = @ \ {id}] IN
         IF s1.m.locked_token_count = 0
         THEN Err(s1, "Locked token count error")
         ELSE LET s2 == [s1 EXCEPT !.m.locked_token_count = @ - 1]
                  r  == data_burn(s2.d, caller, account, id)
              IN  IF r.ok THEN Ok([s2 EXCEPT !.d = r.d], r.events)
                  ELSE Err(s2, r.err)

renounce_ownership(s, caller) ==
    IF ~ownable_check_owner(s.owner, caller) THEN Err(s, "CallerIsNotOwner")
    ELSE Ok([s EXCEPT !.owner = ownable_transfer_ownership(@, None)],
            <<OwnershipTransferredEvent(caller, None)>>)

\* the event's old_owner is read with self.owner() after the owner was replaced
transfer_ownership(s, caller, new_owner) ==
    IF ~ownable_check_owner(s.owner, caller) THEN Err(s, "CallerIsNotOwner")
    ELSE LET s1 == [s EXCEPT !.owner = ownable_transfer_ownership(@, new_owner)] IN
         Ok(s1, <<OwnershipTransferredEvent(s1.owner, new_owner)>>)

set_base_uri(s, caller, uri) ==
    IF ~ownable_check_owner(s.owner, caller) THEN Err(s, "CallerIsNotOwner")
    ELSE LET r == Manager_set_base_uri(s.m, uri) IN
         IF r.ok THEN Ok([s EXCEPT !.m = r.m], <<>>)
         ELSE Err([s EXCEPT !.m = r.m], r.err)

\* mutant: lock checks the contract owner, not the token owner
lock_by_contract_owner(s, caller, token_id) ==
    IF ~ownable_check_owner(s.owner, caller) THEN Err(s, "CallerIsNotOwner")
    ELSE LET r == Manager_lock(s.m, token_id) IN
         IF r.ok THEN Ok([s EXCEPT !.m = r.m], <<>>)
         ELSE Err([s EXCEPT !.m = r.m], r.err)

lock(s, caller, token_id) ==
    IF owner_of(s, token_id) # caller THEN Err(s, "CallerIsNotOwner")
    ELSE LET r == Manager_lock(s.m, token_id) IN
         IF r.ok THEN Ok([s EXCEPT !.m = r.m], <<>>)
         ELSE Err([s EXCEPT !.m = r.m], r.err)

(***************************************************************************)
(* The state machine: one action per message                               *)
(***************************************************************************)
\* the contract as the record the operators above work on
St ==
    [owner |-> ownable_owner,
     m |-> [last_token_id |-> last_token_id,
            attribute_count |-> attribute_count,
            attribute_names |-> attribute_names,
            is_attribute |-> is_attribute,
            locked_tokens |-> locked_tokens,
            locked_token_count |-> locked_token_count,
            attributes |-> attributes],
     d |-> [token_owner |-> token_owner,
            balance |-> balance,
            supply |-> supply,
            operator_approvals |-> operator_approvals,
            all_tokens |-> all_tokens,
            owned_tokens |-> owned_tokens]]

\* the contract after the message: what the method left in storage
Store(s) ==
    /\ ownable_owner' = s.owner
    /\ last_token_id' = s.m.last_token_id
    /\ attribute_count' = s.m.attribute_count
    /\ attribute_names' = s.m.attribute_names
    /\ is_attribute' = s.m.is_attribute
    /\ locked_tokens' = s.m.locked_tokens
    /\ locked_token_count' = s.m.locked_token_count
    /\ attributes' = s.m.attributes
    /\ token_owner' = s.d.token_owner
    /\ balance' = s.d.balance
    /\ supply' = s.d.supply
    /\ operator_approvals' = s.d.operator_approvals
    /\ all_tokens' = s.d.all_tokens
    /\ owned_tokens' = s.d.owned_tokens

\* the state the constructor leaves
Init ==
    LET s == new(Deployer, "Collection", "COL") IN
    /\ ownable_owner = s.owner
    /\ last_token_id = s.m.last_token_id
    /\ attribute_count = s.m.attribute_count
    /\ attribute_names = s.m.attribute_names
    /\ is_attribute = s.m.is_attribute
    /\ locked_tokens = s.m.locked_tokens
    /\ locked_token_count = s.m.locked_token_count
    /\ attributes = s.m.attributes
    /\ token_owner = s.d.token_owner
    /\ balance = s.d.balance
    /\ supply = s.d.supply
    /\ operator_approvals = s.d.operator_approvals
    /\ all_tokens = s.d.all_tokens
    /\ owned_tokens = s.d.owned_tokens
    /\ last = Call("new", Deployer, FALSE, TRUE, "")
    /\ sealed = {}

\* a message that returned r: what it left in storage; it becomes the last
\* message if it returned Ok or wrote to storage before its Err (a message
\* rejected before any write leaves the contract as it was)
Returns(op, caller, id, r) ==
    /\ Store(r.s)
    /\ last' = IF r.ok \/ r.s # St
               THEN Call(op, caller,
                         owner_of(St, id) \notin {None, caller}, r.ok, r.err)
               ELSE last
    /\ sealed' = IF op = "lock" /\ r.ok THEN sealed \cup {id}
                 ELSE IF op = "burn" /\ r.ok THEN sealed \ {id}
                 ELSE sealed

Mint(caller) ==
    /\ last_token_id < MaxTokenId
    /\ Returns("mint", caller, NoneId, mint(St, caller))

MintWithAttributes(caller, metadata) ==
    /\ last_token_id < MaxTokenId
    /\ Returns("mint_with_attributes", caller, NoneId,
               mint_with_attributes(St, caller, metadata))

Transfer(caller, to, id) ==
    /\ caller \in Accounts
    /\ Returns("transfer", caller, id, transfer(St, caller, to, id))

Approve(caller, operator, id, approved) ==
    /\ caller \in Accounts
    /\ Returns("approve", caller, id, approve(St, caller, operator, id, approved))

Burn(caller, account, id) ==
    /\ caller \in Accounts
    /\ Returns("burn", caller, id, burn(St, caller, account, id))

RenounceOwnership(caller) ==
    /\ caller \in Accounts
    /\ Returns("renounce_ownership", caller, NoneId, renounce_ownership(St, caller))

TransferOwnership(caller, new_owner) ==
    /\ caller \in Accounts
    /\ Returns("transfer_ownership", caller, NoneId,
            transfer_ownership(St, caller, new_owner))

SetBaseUri(caller, uri) ==
    /\ caller \in Accounts
    /\ Returns("set_base_uri", caller, NoneId, set_base_uri(St, caller, uri))

SetMultipleAttributes(caller, token_id, metadata) ==
    /\ caller \in Accounts
    /\ Returns("set_multiple_attributes", caller, token_id,
            set_multiple_attributes(St, caller, token_id, metadata))

Lock(caller, token_id) ==
    /\ locked_token_count < MaxLockCount
    /\ Returns("lock", caller, token_id, lock(St, caller, token_id))

\* every message, its arguments drawn from the input sets of I
Messages(I) ==
    \/ \E caller \in I.minters : Mint(caller)
    \/ \E caller \in I.minters, metadata \in I.metadata :
           MintWithAttributes(caller, metadata)
    \/ \E caller \in I.callers, to \in I.tos, id \in I.ids : Transfer(caller, to, id)
    \/ \E caller \in I.approvers, operator \in I.operators, id \in I.approveIds,
          approved \in BOOLEAN : Approve(caller, operator, id, approved)
    \/ \E caller \in I.callers, account \in I.callers, id \in I.ids :
           Burn(caller, account, id)
    \/ \E caller \in I.admins : RenounceOwnership(caller)
    \/ \E caller \in I.admins, new_owner \in I.newOwners :
           TransferOwnership(caller, new_owner)
    \/ \E caller \in I.uriCallers, uri \in I.uris : SetBaseUri(caller, uri)
    \/ \E caller \in I.minters, token_id \in I.attrIds, metadata \in I.metadata :
           SetMultipleAttributes(caller, token_id, metadata)
    \/ \E caller \in I.callers, token_id \in I.lockIds : Lock(caller, token_id)

\* Ledger runs: transfer and burn by every account on every token id, lock
\* by every account on the first token; the deployer approves two operators,
\* for one token and for the collection; one attribute list, and the contract
\* owner stays the deployer
LedgerInputs ==
    [minters |-> {"A", "B"}, metadata |-> {<<>>},
     callers |-> Accounts, tos |-> Accounts, ids |-> TokenIds,
     approvers |-> {"A"}, operators |-> {"B", "C"},
     approveIds |-> {U64(1), NoneId},
     admins |-> Accounts \ {Deployer}, newOwners |-> {None},
     uriCallers |-> Accounts \ {Deployer}, uris |-> {"ipfs://a/"},
     attrIds |-> TokenIds, lockIds |-> {U64(1)}]

NextLedger == Messages(LedgerInputs)
SpecLedger == Init /\ [][NextLedger]_vars

\* Access-control runs: the contract owner changes hands and is renounced,
\* every account calls the owner-gated messages; one attribute list, one
\* recipient, one approval; transfer, burn and lock on the first token
AccessInputs ==
    [minters |-> Accounts, metadata |-> {<<<<"color", "red">>>>},
     callers |-> {"A", "B"}, tos |-> {"B"}, ids |-> {U64(1)},
     approvers |-> {"A"}, operators |-> {"B"}, approveIds |-> {NoneId},
     admins |-> Accounts, newOwners |-> {"B", None},
     uriCallers |-> Accounts, uris |-> {"ipfs://a/"},
     attrIds |-> {U64(1)}, lockIds |-> {U64(1)}]

NextAccess == Messages(AccessInputs)
SpecAccess == Init /\ [][NextAccess]_vars

\* the attribute lists of the attribute runs: every list of names up to
\* MaxPairs, one value
OneValueLists == SeqsUpTo(Names \X {"red"}, MaxPairs)

\* Attribute runs: every list of names on the collection pseudo-token, on
\* Id::U64(0) and on the first two token ids, both base URIs; lock of the first
\* token and burn by the deployer, who keeps the tokens and stays the contract
\* owner
AttributeInputs ==
    [minters |-> {"A"}, metadata |-> OneValueLists,
     callers |-> {"A"}, tos |-> {"A"}, ids |-> {U64(1), U64(2)},
     approvers |-> {"A"}, operators |-> {"A"}, approveIds |-> {NoneId},
     admins |-> {"B"}, newOwners |-> {None},
     uriCallers |-> {"A", "B"}, uris |-> Uris,
     attrIds |-> {CollectionId, U64(0), U64(1), U64(2)}, lockIds |-> {U64(1)}]

NextAttributes == Messages(AttributeInputs)
SpecAttributes == Init /\ [][NextAttributes]_vars

(***************************************************************************)
(* Properties                                                              *)
(***************************************************************************)
RECURSIVE SumOver(_, _)
SumOver(f, S) ==
    IF S = {} THEN 0
    ELSE LET x == CHOOSE y \in S : TRUE IN f[x] + SumOver(f, S \ {x})

\* every identifier a token may carry in the model
AllIds == Ids \cup DOMAIN token_owner
OwnedIds(s) == {id \in AllIds : owner_of(s, id) # None}
LockedIds(s) == {id \in AllIds \cup s.m.locked_tokens : is_locked_nft(s.m, id)}

\* C1: in every reachable state total_supply() equals the sum of balance_of
\* over all accounts, and both equal the number of ids owner_of is defined for.
C1_SupplyBalanceConsistency ==
    /\ total_supply(St) = SumOver([a \in Accounts |-> balance_of(St, a)], Accounts)
    /\ total_supply(St) = Cardinality(OwnedIds(St))
    /\ \A a \in Accounts :
           balance_of(St, a) = Cardinality({id \in AllIds : owner_of(St, id) = a})

\* C1 witness: a burn has succeeded and left one token, held by an account
\* that is not the one it was minted to
C1_Witness ==
    /\ last.op = "burn" /\ last.ok
    /\ total_supply(St) = 1
    /\ \E a \in Accounts \ {Deployer} : balance_of(St, a) = 1

\* C2: in every reachable state get_locked_token_count() equals the number of
\* ids for which is_locked_nft is true.
C2_LockCountMatchesFlags ==
    get_locked_token_count(St.m) = Cardinality(LockedIds(St))

\* C4: a successful burn(account, id) leaves is_locked_nft(id) false, takes
\* exactly one off get_locked_token_count() when id was locked before the call
\* and leaves the count unchanged when id was not locked.
C4_BurnAdjustsLockCount ==
    \A caller \in Accounts, account \in Accounts, id \in Ids :
        LET r == burn(St, caller, account, id) IN
        r.ok =>
            /\ ~is_locked_nft(r.s.m, id)
            /\ get_locked_token_count(r.s.m) =
                   get_locked_token_count(St.m) - (IF is_locked_nft(St.m, id) THEN 1 ELSE 0)

\* the caller may move id: it is the owner, or holds the owner's collection-wide
\* approval, or the owner's per-token approval for id
Authorized(s, caller, id) ==
    LET owner == owner_of(s, id) IN
    /\ owner # None
    /\ \/ caller = owner
       \/ <<owner, caller, NoneId>> \in s.d.operator_approvals
       \/ <<owner, caller, id>> \in s.d.operator_approvals

\* C5: transfer(to, id) succeeds only if id has an owner and the caller is that
\* owner or holds a collection-wide or a per-token approval from that current
\* owner; no per-token approval granted by an account that no longer owns id
\* is left to authorize anything (every per-token approval is the current
\* owner's).
C5_TransferNeedsAuthorization ==
    /\ \A caller \in Accounts, to \in Accounts, id \in Ids :
           transfer(St, caller, to, id).ok => Authorized(St, caller, id)
    /\ \A a \in operator_approvals : a[3] # NoneId => owner_of(St, a[3]) = a[1]

\* C5 witness: an operator, not the account that held the token, has
\* transferred it to a third account
C5_Witness ==
    /\ last.op = "transfer" /\ last.ok
    /\ last.for_other
    /\ \E id \in TokenIds : owner_of(St, id) \notin {None, Deployer, last.caller}

\* C6: after a transfer of id away from old_owner succeeds,
\* allowance(old_owner, operator, Some(id)) is false for every operator for
\* which it was true before the transfer.
C6_TransferClearsAllowances ==
    \A caller \in Accounts, to \in Accounts, id \in Ids, operator \in Accounts :
        LET old_owner == owner_of(St, id)
            r == transfer(St, caller, to, id)
        IN  (r.ok /\ to # old_owner /\ allowance(St, old_owner, operator, id))
                => ~allowance(r.s, old_owner, operator, id)

\* C7: burn(account, id) succeeds only if id has an owner, account is that
\* owner, and the caller is account or allowance(account, caller, Some(id));
\* in every other case it returns an error and the token stays with its owner.
MayBurn(s, caller, account, id) ==
    /\ owner_of(s, id) # None
    /\ owner_of(s, id) = account
    /\ (caller = account \/ allowance(s, account, caller, id))

C7_BurnNeedsOwnerAndApproval ==
    \A caller \in Accounts, account \in Accounts, id \in Ids :
        LET r == burn(St, caller, account, id) IN
        /\ r.ok => MayBurn(St, caller, account, id)
        /\ ~MayBurn(St, caller, account, id) =>
               ~r.ok /\ owner_of(r.s, id) = owner_of(St, id)

\* C7 witness: an approved operator has burned another account's token
C7_Witness ==
    /\ last.op = "burn" /\ last.ok
    /\ last.for_other

\* C8: lock(id) succeeds only when the caller is the current owner of token id;
\* any other caller gets an error and the lock flag and counter are unchanged.
C8_LockOnlyByTokenOwner ==
    \A caller \in Accounts, id \in Ids :
        LET r == lock(St, caller, id) IN
        /\ r.ok => owner_of(St, id) = caller
        /\ owner_of(St, id) # caller =>
               /\ ~r.ok
               /\ r.s.m.locked_tokens = St.m.locked_tokens
               /\ r.s.m.locked_token_count = St.m.locked_token_count

\* C8 witness: a token owner who is not the contract owner has locked its token
C8_Witness ==
    /\ last.op = "lock" /\ last.ok
    /\ last.caller # ownable_owner
    /\ \E id \in locked_tokens : owner_of(St, id) = last.caller

\* the stored attributes of one identifier, as (key, value) pairs
AttributesOf(id) ==
    {<<x[2], attributes[x]>> : x \in {y \in DOMAIN attributes : y[1] = id}}

\* C3: once lock(id) has succeeded (and until id is burned) every
\* set_multiple_attributes(id, pairs) call is rejected, as locked when it comes
\* from the contract owner, and no stored attribute value of id changes.
C3_LockedAttributesFrozen ==
    [][\A id \in sealed :
           /\ \A caller \in Accounts, metadata \in PairLists :
                  LET r == set_multiple_attributes(St, caller, id, metadata) IN
                  /\ ~r.ok
                  /\ caller = ownable_owner => r.err = "Token is locked"
           /\ id \in sealed' => AttributesOf(id)' = AttributesOf(id)]_vars

\* the attribute lists tried against the owner gate: empty or one pair
GateLists == SeqsUpTo(Names \X Values, 1)

\* C9: mint, mint_with_attributes, set_base_uri and set_multiple_attributes
\* called by an account that is not the current contract owner return an error
\* and leave the whole contract unchanged.
C9_OwnerGatedMessages ==
    \A caller \in Accounts :
        caller # ownable_owner =>
            /\ LET r == mint(St, caller) IN ~r.ok /\ r.s = St
            /\ \A metadata \in GateLists :
                   LET r == mint_with_attributes(St, caller, metadata) IN
                   ~r.ok /\ r.s = St
            /\ \A uri \in Uris :
                   LET r == set_base_uri(St, caller, uri) IN ~r.ok /\ r.s = St
            /\ \A id \in Ids, metadata \in GateLists :
                   LET r == set_multiple_attributes(St, caller, id, metadata) IN
                   ~r.ok /\ r.s = St

\* C9 witness: the deployer handed the contract to another account after a
\* mint, so the deployer is now among the refused callers
C9_Witness ==
    /\ last.op = "transfer_ownership" /\ last.ok
    /\ last.caller = Deployer
    /\ ownable_owner \notin {None, Deployer}
    /\ last_token_id = 1
    /\ ~mint(St, Deployer).ok

\* a name of the list is interned already or was used by an earlier pair
UsesInternedName(s, metadata) ==
    \E i \in 1..Len(metadata) :
        \/ metadata[i][1] \in s.m.is_attribute
        \/ \E j \in 1..(i - 1) : metadata[j][1] = metadata[i][1]

\* the value of the last pair of the list that carries the name of pair i
LastValue(metadata, i) ==
    LET same == {j \in 1..Len(metadata) : metadata[j][1] = metadata[i][1]}
    IN  metadata[CHOOSE j \in same : \A k \in same : k <= j][2]

\* C10: set_multiple_attributes(id, pairs) by the contract owner on an unlocked
\* token succeeds when a name of pairs is interned already: the values are
\* upserted and get_attribute_count() grows by the new names only; a second
\* call with the same arguments succeeds too and changes nothing.
C10_InternedNameUpsert ==
    \A id \in Ids \ {U64(0)}, metadata \in PairLists :
        (ownable_owner # None /\ ~is_locked_nft(St.m, id)) =>
            LET r  == set_multiple_attributes(St, ownable_owner, id, metadata)
                r2 == set_multiple_attributes(r.s, ownable_owner, id, metadata)
                fresh == {metadata[i][1] : i \in 1..Len(metadata)} \ St.m.is_attribute
            IN  /\ UsesInternedName(St, metadata) =>
                       /\ r.ok
                       /\ \A i \in 1..Len(metadata) :
                              get_attribute(r.s, id, metadata[i][1]) = SomeValue(LastValue(metadata, i))
                       /\ get_attribute_count(r.s.m) =
                              get_attribute_count(St.m) + Cardinality(fresh)
                /\ r.ok => r2.ok /\ r2.s = r.s

\* the attribute names stored for any identifier; no message removes a stored
\* attribute, so these are the names ever written
WrittenNames(s) == {x[2] : x \in DOMAIN s.m.attributes}
\* the names held by the interning table, by index
InternedNames(s) == {s.m.attribute_names[i] : i \in DOMAIN s.m.attribute_names}

\* C11: in every reachable state the interning table holds exactly the distinct
\* attribute names ever written for any identifier (the collection pseudo-token
\* included, whoever wrote them), each name at exactly one index, and
\* get_attribute_count() is the number of those names.
C11_InterningTableComplete ==
    /\ St.m.is_attribute = WrittenNames(St)
    /\ InternedNames(St) = WrittenNames(St)
    /\ \A i, j \in DOMAIN St.m.attribute_names :
           St.m.attribute_names[i] = St.m.attribute_names[j] => i = j
    /\ get_attribute_count(St.m) = Cardinality(WrittenNames(St))

\* the attribute lists tried on the collection pseudo-token: the lists of at
\* most one pair, and the pairs that name what the constructor and set_base_uri
\* store
CollectionLists ==
    GateLists \cup {<<<<"name", "red">>>>, <<<<"symbol", "red">>>>,
                    <<<<"baseURI", "ipfs://b/">>>>}

\* C12: set_multiple_attributes on the collection pseudo-token Id::U8(0) fails
\* with InvalidInput, so no set_multiple_attributes call changes an attribute
\* stored under the pseudo-token.
C12_CollectionIdRejected ==
    \A metadata \in CollectionLists :
        ownable_owner # None =>
            LET r == set_multiple_attributes(St, ownable_owner, CollectionId, metadata)
            IN  /\ ~r.ok
                /\ r.err = "InvalidInput"
                /\ \A key \in {"name", "symbol", "baseURI"} :
                       get_attribute(r.s, CollectionId, key) =
                           get_attribute(St, CollectionId, key)

\* C13: whenever set_multiple_attributes returns an error, the stored attribute
\* values, the interning table and get_attribute_count() are as before the
\* call.
C13_FailedSetAttributesWritesNothing ==
    \A caller \in Accounts, id \in Ids, metadata \in PairLists :
        LET r == set_multiple_attributes(St, caller, id, metadata) IN
        ~r.ok =>
            /\ r.s.m.attributes = St.m.attributes
            /\ r.s.m.attribute_names = St.m.attribute_names
            /\ r.s.m.is_attribute = St.m.is_attribute
            /\ get_attribute_count(r.s.m) = get_attribute_count(St.m)

\* what C14 says a failed mint leaves alone
MintView(s) ==
    [last_token_id |-> get_last_token_id(s.m),
     total_supply |-> total_supply(s),
     owners |-> [id \in AllIds \cup {U64(s.m.last_token_id + 1)} |-> owner_of(s, id)],
     balances |-> [a \in Accounts |-> balance_of(s, a)],
     attributes |-> s.m.attributes,
     attribute_names |-> s.m.attribute_names,
     is_attribute |-> s.m.is_attribute,
     attribute_count |-> get_attribute_count(s.m)]

\* C14: whenever mint or mint_with_attributes returns an error,
\* get_last_token_id(), total_supply(), every owner_of and balance_of result,
\* the attribute store and the interning table are as before the call.
C14_FailedMintChangesNothing ==
    \A caller \in Accounts :
        /\ LET r == mint(St, caller) IN
           ~r.ok => MintView(r.s) = MintView(St)
        /\ \A metadata \in PairLists :
               LET r == mint_with_attributes(St, caller, metadata) IN
               ~r.ok => MintView(r.s) = MintView(St)

\* C15: whenever burn(account, id) returns an error, the lock flags, the lock
\* count, ownership, balances, supply and approvals are as before the call.
C15_FailedBurnChangesNothing ==
    \A caller \in Accounts, account \in Accounts, id \in Ids :
        LET r == burn(St, caller, account, id) IN
        ~r.ok =>
            /\ r.s.m.locked_tokens = St.m.locked_tokens
            /\ get_locked_token_count(r.s.m) = get_locked_token_count(St.m)
            /\ r.s.d = St.d

\* the indices asked of the enumeration messages: every valid one and beyond
Indices == 0..(MaxTokenId + 1)

\* C16: in every reachable state each live token is returned by
\* token_by_index(i) for exactly one i and by
\* owners_token_by_index(owner_of(id), j) for exactly one j; token_by_index(i)
\* returns an identifier only for i < total_supply() and
\* owners_token_by_index(owner, j) only for j < balance_of(owner).
C16_EnumerationBijection ==
    /\ \A id \in OwnedIds(St) :
           /\ Cardinality({i \in Indices : token_by_index(St, i) = IdOk(id)}) = 1
           /\ Cardinality({j \in Indices :
                  owners_token_by_index(St, owner_of(St, id), j) = IdOk(id)}) = 1
    /\ \A i \in Indices :
           /\ token_by_index(St, i).ok <=> i < total_supply(St)
           /\ token_by_index(St, i).ok => token_by_index(St, i).id \in OwnedIds(St)
    /\ \A owner \in Accounts, j \in Indices :
           LET r == owners_token_by_index(St, owner, j) IN
           /\ r.ok <=> j < balance_of(St, owner)
           /\ r.ok => owner_of(St, r.id) = owner

\* C16 witness: after transfers an account other than the minter holds two
\* tokens and lists them against the order they were minted in
C16_Witness ==
    /\ last.op = "transfer" /\ last.ok
    /\ \E owner \in Accounts \ {Deployer} :
           /\ balance_of(St, owner) = 2
           /\ owners_token_by_index(St, owner, 0).id[2] >
                  owners_token_by_index(St, owner, 1).id[2]

\* the ids that have an owner after the step and had none before it
Minted == DOMAIN token_owner' \ DOMAIN token_owner

\* C17: a token identifier is never minted twice: a successful mint or
\* mint_with_attributes creates exactly the token Id::U64(n) with n one more
\* than get_last_token_id() before the call, no other step gives an owner to
\* an id, get_last_token_id() never decreases and bounds every id that has an
\* owner, and an id at or below get_last_token_id() that has no owner (a
\* burned id) has none after the step.
C17_TokenIdNeverReused ==
    [][/\ (last'.op \in {"mint", "mint_with_attributes"} /\ last'.ok /\ St' # St)
              => /\ Minted = {U64(get_last_token_id(St.m) + 1)}
                 /\ get_last_token_id(St.m)' = get_last_token_id(St.m) + 1
       /\ \A id \in Minted :
              /\ last'.op \in {"mint", "mint_with_attributes"}
              /\ id = U64(get_last_token_id(St.m) + 1)
       /\ \A id \in DOMAIN token_owner :
              \E n \in 1..get_last_token_id(St.m) : id = U64(n)
       /\ get_last_token_id(St.m)' >= get_last_token_id(St.m)
       /\ \A n \in 1..get_last_token_id(St.m) :
              owner_of(St, U64(n)) = None => U64(n) \notin DOMAIN token_owner'
      ]_vars

\* C17 witness: the first token was burned and the mint that followed created
\* the second one
C17_Witness ==
    /\ last.op \in {"mint", "mint_with_attributes"} /\ last.ok
    /\ get_last_token_id(St.m) = 2
    /\ owner_of(St, U64(1)) = None
    /\ owner_of(St, U64(2)) # None

\* the lists of attribute names asked of get_attributes
NameLists == SeqsUpTo(Names, MaxPairs)

\* C18: after set_multiple_attributes(id, pairs) succeeds, get_attribute(id, k)
\* returns Some(v) and get_attributes(id, [k]) returns [v] for the last pair
\* (k, v) with that name in pairs; for a name not stored on id get_attribute
\* returns None and get_attributes returns empty text; get_attributes returns
\* one entry per requested name.
C18_AttributeRoundTrip ==
    /\ \A id \in Ids, metadata \in PairLists :
           ownable_owner # None =>
               LET r == set_multiple_attributes(St, ownable_owner, id, metadata) IN
               r.ok => \A i \in 1..Len(metadata) :
                           /\ get_attribute(r.s, id, metadata[i][1]) = SomeValue(LastValue(metadata, i))
                           /\ get_attributes(r.s.m, id, <<metadata[i][1]>>) =
                                  <<LastValue(metadata, i)>>
    /\ \A id \in Ids, k \in Names :
           <<id, k>> \notin DOMAIN attributes =>
               /\ get_attribute(St, id, k) = NoValue
               /\ get_attributes(St.m, id, <<k>>) = <<"">>
    /\ \A id \in Ids, names \in NameLists :
           Len(get_attributes(St.m, id, names)) = Len(names)

\* C18 witness: a set_multiple_attributes has stored color on the first token,
\* which is minted, and size is not stored on it
C18_Witness ==
    /\ last.op = "set_multiple_attributes" /\ last.ok
    /\ owner_of(St, U64(1)) # None
    /\ get_attribute(St, U64(1), "color") = SomeValue("red")
    /\ get_attribute(St, U64(1), "size") = NoValue
    /\ get_attributes(St.m, U64(1), <<"color", "size">>) = <<"red", "">>

\* the scenario of the specification, run from contract s: the result of each
\* of its six messages
Scenario(s) ==
    LET minted      == mint(s, "A")
        approved    == approve(minted.s, "A", "B", U64(1), TRUE)
        transferred == transfer(approved.s, "B", "C", U64(1))
        locked      == lock(transferred.s, "C", U64(1))
        rejected    == set_multiple_attributes(locked.s, "A", U64(1),
                                               <<<<"color", "red">>>>)
        burned      == burn(rejected.s, "C", "C", U64(1))
    IN  [minted |-> minted, approved |-> approved, transferred |-> transferred,
         locked |-> locked, rejected |-> rejected, burned |-> burned]

\* C19: from the initial state the scenario runs to completion: A mints token
\* 1, A approves B for it, B transfers it to C, C locks it (locked, count 1),
\* set_multiple_attributes(1, [("color","red")]) is rejected as locked, and the
\* burn of token 1 by C succeeds and leaves total_supply() = 0,
\* balance_of(C) = 0 and get_locked_token_count() = 0.
C19_ScenarioCompletes ==
    St = new(Deployer, "Collection", "COL") =>
        LET run == Scenario(St) IN
        /\ run.minted.ok
        /\ owner_of(run.minted.s, U64(1)) = "A"
        /\ balance_of(run.minted.s, "A") = 1
        /\ total_supply(run.minted.s) = 1
        /\ run.approved.ok
        /\ allowance(run.approved.s, "A", "B", U64(1))
        /\ run.transferred.ok
        /\ owner_of(run.transferred.s, U64(1)) = "C"
        /\ run.locked.ok
        /\ is_locked_nft(run.locked.s.m, U64(1))
        /\ get_locked_token_count(run.locked.s.m) = 1
        /\ ~run.rejected.ok
        /\ run.rejected.err = "Token is locked"
        /\ run.rejected.s = run.locked.s
        /\ run.burned.ok
        /\ total_supply(run.burned.s) = 0
        /\ balance_of(run.burned.s, "C") = 0
        /\ get_locked_token_count(run.burned.s.m) = 0

\* C19 witness: the contract is in the state the scenario ends in, left there
\* by a burn that C sent
C19_Witness ==
    /\ last.op = "burn" /\ last.ok /\ last.caller = "C"
    /\ St = Scenario(new(Deployer, "Collection", "COL")).burned.s

\* the token numbers token_uri is asked for: one and two digits, zero included
UriTokenIds == {0, 1, 7, 10, 42}
\* token_uri of every asked number, as one value
TokenUris(s) == [n \in UriTokenIds |-> token_uri(s.m, n)]

\* C20: token_uri(n) is the value most recently passed to a successful
\* set_base_uri (empty text before the first one) followed by the decimal
\* digits of n and ".json": it is so after construction and after every
\* successful set_base_uri, and no other message, succeeding or failing,
\* changes the result of token_uri(n).
C20_TokenUriFollowsBaseUri ==
    /\ last.op = "new" =>
           TokenUris(St) = [n \in UriTokenIds |-> to_string(n) \o ".json"]
    /\ \A caller \in Accounts, uri \in Uris :
           LET r == set_base_uri(St, caller, uri) IN
           IF r.ok
           THEN TokenUris(r.s) = [n \in UriTokenIds |-> uri \o to_string(n) \o ".json"]
           ELSE TokenUris(r.s) = TokenUris(St)
    /\ \A caller \in Accounts :
           /\ TokenUris(mint(St, caller).s) = TokenUris(St)
           /\ TokenUris(renounce_ownership(St, caller).s) = TokenUris(St)
           /\ \A new_owner \in Accounts \cup {None} :
                  TokenUris(transfer_ownership(St, caller, new_owner).s) = TokenUris(St)
           /\ \A operator \in Accounts, id \in {U64(1), NoneId}, approved \in BOOLEAN :
                  TokenUris(approve(St, caller, operator, id, approved).s) = TokenUris(St)
           /\ \A metadata \in CollectionLists :
                  TokenUris(mint_with_attributes(St, caller, metadata).s) = TokenUris(St)
           /\ \A id \in Ids :
                  /\ TokenUris(lock(St, caller, id).s) = TokenUris(St)
                  /\ \A to \in Accounts :
                         /\ TokenUris(transfer(St, caller, to, id).s) = TokenUris(St)
                         /\ TokenUris(burn(St, caller, to, id).s) = TokenUris(St)
                  /\ \A metadata \in CollectionLists :
                         TokenUris(set_multiple_attributes(St, caller, id, metadata).s)
                             = TokenUris(St)

\* the indices asked of get_attribute_name: zero, every index a name can take
\* and two beyond
NameIndices == 0..(Cardinality(Names) + 2)

\* C21: when every interned name is non-empty, get_attribute_name(i) returns a
\* non-empty name exactly for 1 <= i <= get_attribute_count() and empty text
\* for index 0 and every index above the count; distinct in-range indices
\* return distinct names, and the name at an in-range index is the same after
\* every step.
C21_AttributeNameIndex ==
    [][(\A name \in is_attribute : name # "") =>
           /\ \A i \in NameIndices :
                  get_attribute_name(St.m, i) # ""
                      <=> (1 <= i /\ i <= get_attribute_count(St.m))
           /\ \A i, j \in 1..get_attribute_count(St.m) :
                  get_attribute_name(St.m, i) = get_attribute_name(St.m, j) => i = j
           /\ \A i \in 1..get_attribute_count(St.m) :
                  get_attribute_name(St.m, i)' = get_attribute_name(St.m, i)
      ]_vars

\* C21 witness: two names are interned, the second by a later call than the
\* first
C21_Witness ==
    /\ last.op \in {"set_multiple_attributes", "mint_with_attributes"}
    /\ get_attribute_count(St.m) = 2
    /\ get_attribute_name(St.m, 1) # get_attribute_name(St.m, 2)
    /\ get_attribute_name(St.m, 3) = ""
    /\ \E id1, id2 \in Ids :
           /\ id1 # id2
           /\ get_attribute(St, id1, get_attribute_name(St.m, 1)) # NoValue
           /\ get_attribute(St, id2, get_attribute_name(St.m, 2)) # NoValue

\* C22: in every reachable state every id for which is_locked_nft(id) is true
\* has an owner: a lock flag is never set for a token that does not exist and
\* never survives the burn of its token.
C22_LockedTokenHasOwner ==
    \A id \in AllIds \cup locked_tokens : is_locked_nft(St.m, id) => owner_of(St, id) # None

\* C22 witness: a burn has just succeeded on a token that had been locked (the
\* counter still counts a lock although no flag is left), while another
\* token is still owned
C22_Witness ==
    /\ last.op = "burn" /\ last.ok
    /\ \E id \in TokenIds :
           /\ id[2] <= get_last_token_id(St.m)
           /\ owner_of(St, id) = None
           /\ ~is_locked_nft(St.m, id)
    /\ get_locked_token_count(St.m) >= 1
    /\ LockedIds(St) = {}
    /\ total_supply(St) >= 1

\* an identifier of a token minted so far: Id::U64(n) with
\* 1 <= n <= get_last_token_id()
IsMintedId(s, id) ==
    id[1] = "U64" /\ 1 <= id[2] /\ id[2] <= get_last_token_id(s.m)

\* C23: in every reachable state every identifier that holds a stored
\* attribute value is either the collection pseudo-token Id::U8(0) or a token
\* that has been minted (Id::U64(n) with 1 <= n <= get_last_token_id());
\* set_multiple_attributes never writes attributes for an id that has not been
\* minted yet.
C23_AttributesOnlyOnMintedIds ==
    \A id \in Ids :
        (\E key \in Names : get_attribute(St, id, key) # NoValue)
            => (id = CollectionId \/ IsMintedId(St, id))

\* C24: the OwnershipTransferred event emitted by a successful
\* transfer_ownership(new_owner) carries as old_owner the account that was
\* contract owner immediately before the call and as new_owner the account
\* that is contract owner immediately after it.
C24_OwnershipEventNamesBothOwners ==
    \A caller \in Accounts, new_owner \in Accounts \cup {None} :
        LET r == transfer_ownership(St, caller, new_owner) IN
        r.ok =>
            /\ Len(r.events) = 1
            /\ r.events[1].old_owner = St.owner
            /\ r.events[1].new_owner = r.s.owner

====
